---- MODULE Spec2Model ----
(***************************************************************************)
(* Model of the storyboard generator: the batch loop of handleGenerate,    *)
(* the per-item retry of handleRetry, handleDelete and                     *)
(* handleSelectHistoryItem (src/App.tsx), over the three provider calls    *)
(* analyzeScript, generateImage and getPromptFix                           *)
(* (src/services/geminiService.ts).                                        *)
(*                                                                         *)
(* JavaScript runs every handler and every continuation of an await to     *)
(* completion, so one action is one such synchronous segment, and the      *)
(* state updates a segment queues are applied together at its end.         *)
(*                                                                         *)
(* Texts are sequences of one-character strings, so that trimming and      *)
(* concatenation are computed.  An optional text (suggestedPrompt?) is the *)
(* empty sequence when absent and the one-element sequence <<text>> when   *)
(* set.  Date.now() is the clock `now`, which advances when a batch        *)
(* starts, so that batch ids are distinct.                                 *)
(*                                                                         *)
(* The provider responses are inputs: the analysis answers with any of the *)
(* shapes analyzeScript tells apart, with scene arrays of up to MaxScenes  *)
(* elements, one of which may be a JSON null; the k-th scene of a script   *)
(* has the prompt ScenePromptAt(k).  One aspect ratio is selected.  The    *)
(* user issues at most MaxCommands retry, delete and select commands.      *)
(*                                                                         *)
(* The localStorage item yadam-history is the variable storage: a JSON     *)
(* value, written by the persist effect in the step that sets the history. *)
(* mount is the progress of the first render and its two effects; it is    *)
(* ready in every state of the specifications that start after startup.    *)
(*                                                                         *)
(* Spec has all commands.  RetrySpec has a user who only retries, as often *)
(* as the failed cards allow; RatioSpec has a user who moves the aspect    *)
(* ratio selector before every batch; DeleteSpec has a user who retries    *)
(* and deletes; SelectSpec starts from a stored batch and has select and   *)
(* delete only; StartupSpec starts at the first render, from any stored    *)
(* value; FairSpec and RetryFairSpec add that the awaited calls of the     *)
(* batch, respectively of the retries, return.                             *)
(***************************************************************************)
EXTENDS Integers, Sequences, FiniteSets

\* ------------------------------------------------------------------ bounds
MaxBatches == 1   \* startGeneration commands with a non-empty script
MaxScenes == 2    \* longest scene list the analyzer returns
MaxCommands == 1  \* retry, delete and select commands of the user

\* ------------------------------------------------------------------ texts
RECURSIVE TrimStart(_)
TrimStart(s) ==
  IF s # <<>> /\ Head(s) = " " THEN TrimStart(Tail(s)) ELSE s

RECURSIVE TrimEnd(_)
TrimEnd(s) ==
  IF s # <<>> /\ s[Len(s)] = " " THEN TrimEnd(SubSeq(s, 1, Len(s) - 1)) ELSE s

\* String.prototype.trim
Trim(s) == TrimEnd(TrimStart(s))

DigitChar(d) == <<"0", "1", "2", "3", "4", "5", "6", "7", "8", "9">>[d + 1]

\* Number.prototype.toString for a natural number
RECURSIVE NumToString(_)
NumToString(n) ==
  IF n < 10 THEN <<DigitChar(n)>> ELSE NumToString(n \div 10) \o <<DigitChar(n % 10)>>

\* `${batchId}_${i}`
MakeId(batchId, i) == batchId \o <<"_">> \o NumToString(i)

\* ------------------------------------------------------------------ inputs
\* What the user can have typed when the button is pressed.
InputTexts == {<<>>, <<" ">>, <<" ", "x">>}

AspectRatios == {"16:9"}

Summary == <<"s">>
FallbackSummary == <<"f">>

\* A parsed JSON null in the scene array.
NullScene == [isNull |-> TRUE, korean_summary |-> <<>>, english_prompt |-> <<>>]

Scene(p) == [isNull |-> FALSE, korean_summary |-> Summary, english_prompt |-> p]

\* The prompt the analyzer writes for the k-th scene of a script.
ScenePromptAt(k) == IF k % 2 = 1 THEN <<"a">> ELSE <<"b", " ">>

\* A well-formed array of n scenes, and one whose k-th element is null.
WellFormed(n) == [k \in 1..n |-> Scene(ScenePromptAt(k))]

NullAt(n, j) == [k \in 1..n |-> IF k = j THEN NullScene ELSE Scene(ScenePromptAt(k))]

SceneArrays ==
  {WellFormed(n) : n \in 0..MaxScenes}
    \cup UNION {{NullAt(n, j) : j \in 1..n} : n \in 1..MaxScenes}

\* Outcomes of the analysis request: the call rejects, the response has no
\* text, the text is not JSON, the JSON is a primitive, an object or an array.
AnalyzerResponses ==
  {[kind |-> k, value |-> <<>>] : k \in {"raise", "notext", "unparsable", "primitive"}}
    \cup {[kind |-> "object", value |-> <<Scene(ScenePromptAt(1))>>]}
    \cup {[kind |-> "array", value |-> a] : a \in SceneArrays}

\* Outcomes of the image request.
RenderResponses ==
  {[kind |-> k, mime |-> <<>>, data |-> <<>>] : k \in {"raise", "noinline"}}
    \cup {[kind |-> "inline", mime |-> <<>>, data |-> <<"Q">>]}

\* Outcomes of the repair request for a prompt p.
RepairResponses(p) ==
  {[kind |-> k, text |-> <<>>] : k \in {"raise", "notext"}}
    \cup {[kind |-> "text", text |-> t] : t \in {<<>>, <<" ">>, p, <<" ">> \o p, <<"c">>}}

\* ------------------------------------------------------------------ services
FallbackScene(userInput) ==
  [isNull |-> FALSE, korean_summary |-> FallbackSummary, english_prompt |-> userInput]

\* analyzeScript with the failure rethrown as an empty list instead of the fallback
analyzeScriptNoFallback(r, userInput) ==
  IF r.kind = "array" THEN r.value
  ELSE IF r.kind = "object" THEN <<r.value[1]>>
  ELSE <<>>

\* analyzeScript: the scene list for a provider response.
analyzeScript(r, userInput) ==
  IF r.kind = "array" THEN r.value
  ELSE IF r.kind = "object" THEN <<r.value[1]>>
  ELSE <<FallbackScene(userInput)>>

\* generateImage without the test for an empty imageUrl
generateImageUnchecked(r) ==
  IF r.kind = "raise"
  THEN [ok |-> FALSE, imageUrl |-> <<>>]
  ELSE [ok |-> TRUE,
        imageUrl |-> IF r.kind = "inline"
                     THEN <<"data:">> \o (IF r.mime = <<>> THEN <<"image/png">> ELSE r.mime)
                            \o <<";base64,">> \o r.data
                     ELSE <<>>]

\* generateImage: the data URL, or a rejection.
generateImage(r) ==
  LET imageUrl ==
        IF r.kind = "inline"
        THEN <<"data:">> \o (IF r.mime = <<>> THEN <<"image/png">> ELSE r.mime)
               \o <<";base64,">> \o r.data
        ELSE <<>>
  IN IF r.kind = "raise" \/ imageUrl = <<>>
     THEN [ok |-> FALSE, imageUrl |-> <<>>]
     ELSE [ok |-> TRUE, imageUrl |-> imageUrl]

\* getPromptFix: response.text?.trim() || originalPrompt, and originalPrompt
\* when the call rejects.
getPromptFix(r, originalPrompt) ==
  IF r.kind = "text" /\ Trim(r.text) # <<>> THEN Trim(r.text) ELSE originalPrompt

\* ------------------------------------------------------------------ state
VARIABLES
  loadingState,  \* LoadingState
  errorMsg,      \* string | null
  currentBatch,  \* the displayed list
  history,       \* the stored list
  retryingIds,   \* ids with a retry in flight
  now,           \* Date.now()
  pc,            \* where handleGenerate is suspended
  batchId,       \* handleGenerate's batchId
  bInput,        \* inputText as captured by the running handleGenerate
  bAspect,       \* aspectRatio as captured by the running handleGenerate
  scenes,        \* handleGenerate's scenes
  i,             \* handleGenerate's loop index
  tempBatch,     \* handleGenerate's tempBatch
  retries,       \* the suspended handleRetry calls
  commands,      \* retry, delete and select commands issued so far
  storage,       \* localStorage item 'yadam-history'
  mount          \* how far the component is in its startup

vars ==
  <<loadingState, errorMsg, currentBatch, history, retryingIds, now, pc, batchId,
    bInput, bAspect, scenes, i, tempBatch, retries, commands, storage, mount>>

batchVars == <<pc, batchId, bInput, bAspect, scenes, i, tempBatch>>

NoError == "null"

\* ------------------------------------------------------------------ records
Generating(current, total) ==
  [status |-> "generating", current |-> current, total |-> total]

\* newImage of handleGenerate
NewImage(bid, k, input, scene, imageUrl, ts, ar) ==
  [id |-> MakeId(bid, k), batchId |-> bid, originalInput |-> input,
   refinedPrompt |-> scene.english_prompt, suggestedPrompt |-> <<>>,
   sceneSummary |-> scene.korean_summary, imageUrl |-> imageUrl, timestamp |-> ts,
   aspectRatio |-> ar, status |-> "success"]

\* The suggestion kept without comparing it with the prompt
SuggestionFieldUnchecked(suggestedPrompt, prompt) ==
  IF suggestedPrompt # <<>> THEN <<suggestedPrompt>> ELSE <<>>

\* (suggestedPrompt && suggestedPrompt !== scene.english_prompt) ? suggestedPrompt : undefined
SuggestionField(suggestedPrompt, prompt) ==
  IF suggestedPrompt # <<>> /\ suggestedPrompt # prompt THEN <<suggestedPrompt>> ELSE <<>>

\* failedImage of handleGenerate
FailedImage(bid, k, input, scene, suggestedPrompt, ts, ar) ==
  [id |-> MakeId(bid, k), batchId |-> bid, originalInput |-> input,
   refinedPrompt |-> scene.english_prompt,
   suggestedPrompt |-> SuggestionField(suggestedPrompt, scene.english_prompt),
   sceneSummary |-> scene.korean_summary, imageUrl |-> <<>>, timestamp |-> ts,
   aspectRatio |-> ar, status |-> "failed"]

\* promptToUse without the test that the item has a suggestion
PromptToUseUnchecked(item, useSuggestion) ==
  IF useSuggestion
  THEN IF item.suggestedPrompt # <<>> THEN item.suggestedPrompt[1] ELSE <<>>
  ELSE item.refinedPrompt

\* promptToUse of handleRetry
PromptToUse(item, useSuggestion) ==
  IF useSuggestion /\ item.suggestedPrompt # <<>>
  THEN item.suggestedPrompt[1]
  ELSE item.refinedPrompt

\* successItem without the status update
SuccessItemKeepsStatus(item, imageUrl, promptToUse, ts) ==
  [item EXCEPT !.imageUrl = imageUrl, !.refinedPrompt = promptToUse, !.timestamp = ts]

\* successItem that keeps the prompt of the failed item
SuccessItemKeepsPrompt(item, imageUrl, promptToUse, ts) ==
  [item EXCEPT !.imageUrl = imageUrl, !.status = "success", !.timestamp = ts]

\* successItem of handleRetry
SuccessItem(item, imageUrl, promptToUse, ts) ==
  [item EXCEPT !.imageUrl = imageUrl, !.refinedPrompt = promptToUse,
               !.status = "success", !.timestamp = ts]

\* ------------------------------------------------------------------ storage
\* The keys JSON.stringify writes for a record: those whose value is not undefined.
JsonKeys(x) ==
  {"id", "batchId", "originalInput", "refinedPrompt", "sceneSummary", "imageUrl",
   "timestamp", "aspectRatio", "status"}
    \cup (IF x.suggestedPrompt # <<>> THEN {"suggestedPrompt"} ELSE {})

\* The JSON object of a record.
ToJson(x) ==
  [key \in JsonKeys(x) |->
     IF key = "suggestedPrompt" THEN x.suggestedPrompt[1] ELSE x[key]]

\* The record read from a JSON object the program wrote, without its suggestion
FromJsonDropsSuggestion(o) ==
  [id |-> o.id, batchId |-> o.batchId, originalInput |-> o.originalInput,
   refinedPrompt |-> o.refinedPrompt, suggestedPrompt |-> <<>>,
   sceneSummary |-> o.sceneSummary, imageUrl |-> o.imageUrl, timestamp |-> o.timestamp,
   aspectRatio |-> o.aspectRatio, status |-> o.status]

\* The record read from a JSON object the program wrote: a key that is not
\* there reads as undefined.
FromJson(o) ==
  [id |-> o.id, batchId |-> o.batchId, originalInput |-> o.originalInput,
   refinedPrompt |-> o.refinedPrompt,
   suggestedPrompt |-> IF "suggestedPrompt" \in DOMAIN o THEN <<o.suggestedPrompt>> ELSE <<>>,
   sceneSummary |-> o.sceneSummary, imageUrl |-> o.imageUrl, timestamp |-> o.timestamp,
   aspectRatio |-> o.aspectRatio, status |-> o.status]

\* JSON.stringify(history): the text of an array of objects
Stringify(list) ==
  [kind |-> "array", json |-> [k \in 1..Len(list) |-> ToJson(list[k])]]

\* JSON.parse of a text of kind array
Parse(text) == [k \in 1..Len(text.json) |-> FromJson(text.json[k])]

\* The persist effect that is never run again after the mount
PersistNever == UNCHANGED storage

\* The persist effect, which runs with the history of the commit that follows a
\* setHistory call.
Persist == storage' = Stringify(history')

\* setHistory([x]): the stored records are dropped
StoreReplaces(x) ==
  /\ history' = <<x>>
  /\ Persist

\* setHistory(prev => [x, ...prev]) with the result put behind the stored ones
StoreAtEnd(x) ==
  /\ history' = Append(history, x)
  /\ Persist

\* setHistory(prev => [x, ...prev]) and the persist effect it triggers
Store(x) ==
  /\ history' = <<x>> \o history
  /\ Persist

\* A record of an earlier session, as the load effect reads it from storage.
StoredRecord ==
  [id |-> MakeId(NumToString(0), 0), batchId |-> NumToString(0),
   originalInput |-> <<"w">>, refinedPrompt |-> <<"a">>, suggestedPrompt |-> <<>>,
   sceneSummary |-> Summary, imageUrl |-> <<"data:", "image/png", ";base64,", "P">>,
   timestamp |-> 0, aspectRatio |-> "16:9", status |-> "success"]

\* The state of the first render: the initial values of useState.
FirstRender ==
  /\ loadingState = [status |-> "idle"]
  /\ errorMsg = NoError
  /\ currentBatch = <<>>
  /\ retryingIds = {}
  /\ now = 0
  /\ pc = "idle"
  /\ batchId = <<>>
  /\ bInput = <<>>
  /\ bAspect = "16:9"
  /\ scenes = <<>>
  /\ i = 0
  /\ tempBatch = <<>>
  /\ retries = {}
  /\ commands = 0

\* The state once the component is mounted and the stored history h is loaded.
Mounted(h) ==
  /\ FirstRender
  /\ history = h
  /\ storage = Stringify(h)
  /\ mount = "ready"

\* A first start, with nothing stored, or a start with a stored history.
Init == \E h \in {<<>>, <<StoredRecord>>} : Mounted(h)

\* A first start.
InitEmpty == Mounted(<<>>)

Ids(list) == {list[k].id : k \in 1..Len(list)}

\* Array.prototype.map with the replacement of handleRetry
ReplaceById(list, id, item) ==
  [k \in 1..Len(list) |-> IF list[k].id = id THEN item ELSE list[k]]

\* A removal that also cuts off every record behind the one with the id
RECURSIVE RemoveByIdTruncates(_, _)
RemoveByIdTruncates(list, id) ==
  IF list = <<>> THEN <<>>
  ELSE IF Head(list).id = id THEN <<>>
  ELSE <<Head(list)>> \o RemoveByIdTruncates(Tail(list), id)

\* Array.prototype.filter(item => item.id !== id)
RECURSIVE RemoveById(_, _)
RemoveById(list, id) ==
  IF list = <<>> THEN <<>>
  ELSE IF Head(list).id = id THEN RemoveById(Tail(list), id)
  ELSE <<Head(list)>> \o RemoveById(Tail(list), id)

\* ------------------------------------------------------------------ the batch loop
BatchErrorMsg == "TypeError"

\* isLoading: the generate button and the script field are locked meanwhile
isLoading == loadingState.status \in {"analyzing", "generating"}

\* The loop body up to the render call: reading a field of a null scene throws,
\* which the outer catch turns into the error phase.
LoopBody(k, sc, err) ==
  IF sc[k + 1].isNull
  THEN [pc |-> "done", ls |-> [status |-> "error"], err |-> BatchErrorMsg]
  ELSE [pc |-> "render", ls |-> Generating(k + 1, Len(sc)), err |-> err]

\* The loop test with the bound off by one: the last scene is skipped
LoopTestSkipsLast(k, sc, ls, err) ==
  IF k < Len(sc) - 1
  THEN IF k > 0 THEN [pc |-> "delay", ls |-> ls, err |-> err] ELSE LoopBody(k, sc, err)
  ELSE [pc |-> "done", ls |-> [status |-> "success"], err |-> err]

\* The loop that returns to the idle phase when it is through
LoopTestEndsIdle(k, sc, ls, err) ==
  IF k < Len(sc)
  THEN IF k > 0 THEN [pc |-> "delay", ls |-> ls, err |-> err] ELSE LoopBody(k, sc, err)
  ELSE [pc |-> "done", ls |-> [status |-> "idle"], err |-> err]

\* The loop with the delay from the third scene on only
LoopTestNoDelayAfterFirst(k, sc, ls, err) ==
  IF k < Len(sc)
  THEN IF k > 1 THEN [pc |-> "delay", ls |-> ls, err |-> err] ELSE LoopBody(k, sc, err)
  ELSE [pc |-> "done", ls |-> [status |-> "success"], err |-> err]

\* The loop test with i = k, up to the next await or the end of the handler.
LoopTest(k, sc, ls, err) ==
  IF k < Len(sc)
  THEN IF k > 0 THEN [pc |-> "delay", ls |-> ls, err |-> err] ELSE LoopBody(k, sc, err)
  ELSE [pc |-> "done", ls |-> [status |-> "success"], err |-> err]

\* handleGenerate with the script tested as typed, without trimming
handleGenerateUntrimmed(T, ar) ==
  \/ /\ T = <<>>
     /\ UNCHANGED vars
  \/ /\ T # <<>>
     /\ ~isLoading
     /\ now < MaxBatches
     /\ now' = now + 1
     /\ loadingState' = [status |-> "analyzing"]
     /\ errorMsg' = NoError
     /\ batchId' = NumToString(now')
     /\ tempBatch' = <<>>
     /\ bInput' = T
     /\ bAspect' = ar
     /\ scenes' = <<>>
     /\ i' = 0
     /\ pc' = "analyze"
     /\ UNCHANGED <<currentBatch, history, retryingIds, retries, commands, storage, mount>>

\* handleGenerate that empties the displayed list when the batch starts
handleGenerateClearsView(T, ar) ==
  \/ /\ Trim(T) = <<>>
     /\ UNCHANGED vars
  \/ /\ Trim(T) # <<>>
     /\ ~isLoading
     /\ now < MaxBatches
     /\ now' = now + 1
     /\ loadingState' = [status |-> "analyzing"]
     /\ errorMsg' = NoError
     /\ batchId' = NumToString(now')
     /\ tempBatch' = <<>>
     /\ bInput' = T
     /\ bAspect' = ar
     /\ scenes' = <<>>
     /\ i' = 0
     /\ pc' = "analyze"
     /\ currentBatch' = <<>>
     /\ UNCHANGED <<history, retryingIds, retries, commands, storage, mount>>

\* The button passes isLoading on, so no batch is started while one is loading;
\* an empty script returns at once.
handleGenerate(T, ar) ==
  \/ /\ Trim(T) = <<>>
     /\ UNCHANGED vars
  \/ /\ Trim(T) # <<>>
     /\ ~isLoading
     /\ now < MaxBatches
     /\ now' = now + 1
     /\ loadingState' = [status |-> "analyzing"]
     /\ errorMsg' = NoError
     /\ batchId' = NumToString(now')
     /\ tempBatch' = <<>>
     /\ bInput' = T
     /\ bAspect' = ar
     /\ scenes' = <<>>
     /\ i' = 0
     /\ pc' = "analyze"
     /\ UNCHANGED <<currentBatch, history, retryingIds, retries, commands, storage, mount>>

AnalyzeScriptReturns(r) ==
  /\ pc = "analyze"
  /\ LET sc == analyzeScript(r, bInput)
         to == LoopTest(0, sc, Generating(0, Len(sc)), errorMsg)
     IN /\ scenes' = sc
        /\ currentBatch' = <<>>
        /\ i' = 0
        /\ pc' = to.pc
        /\ loadingState' = to.ls
        /\ errorMsg' = to.err
  /\ UNCHANGED <<history, retryingIds, now, batchId, bInput, bAspect, tempBatch, retries,
                 commands, storage, mount>>

\* A pacing promise that is never resolved
DelayNeverElapses ==
  /\ pc = "delay"
  /\ UNCHANGED vars

DelayElapsed ==
  /\ pc = "delay"
  /\ LET to == LoopBody(i, scenes, errorMsg)
     IN /\ pc' = to.pc
        /\ loadingState' = to.ls
        /\ errorMsg' = to.err
  /\ UNCHANGED <<currentBatch, history, retryingIds, now, batchId, bInput, bAspect,
                 scenes, i, tempBatch, retries, commands, storage, mount>>

\* The result put in front, as setHistory does, instead of pushed
EmitPrepends(x) ==
  LET to == LoopTest(i + 1, scenes, loadingState, errorMsg)
  IN /\ tempBatch' = <<x>> \o tempBatch
     /\ currentBatch' = tempBatch'
     /\ i' = i + 1
     /\ pc' = to.pc
     /\ loadingState' = to.ls
     /\ errorMsg' = to.err

\* tempBatch.push(x); setCurrentBatch([...tempBatch]); then the next iteration
Emit(x) ==
  LET to == LoopTest(i + 1, scenes, loadingState, errorMsg)
  IN /\ tempBatch' = Append(tempBatch, x)
     /\ currentBatch' = tempBatch'
     /\ i' = i + 1
     /\ pc' = to.pc
     /\ loadingState' = to.ls
     /\ errorMsg' = to.err

\* The rejection left to the outer catch: the batch ends in the error phase
RenderFailedAborts ==
  /\ pc' = "done"
  /\ loadingState' = [status |-> "error"]
  /\ errorMsg' = "render failed"
  /\ UNCHANGED <<currentBatch, history, retryingIds, now, batchId, bInput, bAspect,
                 scenes, i, tempBatch, retries, commands, storage, mount>>

\* The rejection swallowed: no repair request and no result for the scene
RenderFailedSkipsScene ==
  /\ i' = i + 1
  /\ IF i + 1 < Len(scenes)
     THEN pc' = "render" /\ loadingState' = Generating(i + 2, Len(scenes))
     ELSE pc' = "done" /\ loadingState' = [status |-> "success"]
  /\ UNCHANGED <<errorMsg, currentBatch, history, retryingIds, now, batchId, bInput,
                 bAspect, scenes, tempBatch, retries, commands, storage, mount>>

\* catch (imgError): the repair request is issued for the failed prompt
RenderFailed ==
  /\ pc' = "repair"
  /\ UNCHANGED <<loadingState, errorMsg, currentBatch, history, retryingIds, now,
                 batchId, bInput, bAspect, scenes, i, tempBatch, retries, commands,
                 storage, mount>>

GenerateImageReturns(r) ==
  /\ pc = "render"
  /\ LET res == generateImage(r)
         newImage == NewImage(batchId, i, bInput, scenes[i + 1], res.imageUrl, now, bAspect)
     IN \/ /\ res.ok
           /\ Emit(newImage)
           /\ Store(newImage)
           /\ UNCHANGED <<retryingIds, now, batchId, bInput, bAspect, scenes, retries,
                          commands, mount>>
        \/ /\ ~res.ok
           /\ RenderFailed

\* The responses the pending repair request can get.
RepairResponsesNow ==
  IF pc = "repair" THEN RepairResponses(scenes[i + 1].english_prompt) ELSE {}

GetPromptFixReturns(r) ==
  /\ pc = "repair"
  /\ LET prompt == scenes[i + 1].english_prompt
         suggestedPrompt == getPromptFix(r, prompt)
     IN Emit(FailedImage(batchId, i, bInput, scenes[i + 1], suggestedPrompt, now, bAspect))
  /\ UNCHANGED <<history, retryingIds, now, batchId, bInput, bAspect, scenes, retries,
                 commands, storage, mount>>

\* ------------------------------------------------------------------ retry, delete, select
RetryErrorMsg == "retry failed"

\* handleRetry without the test of retryingIds
StartRetryUnguarded(item, useSuggestion) ==
  /\ retryingIds' = retryingIds \cup {item.id}
  /\ retries' = retries \cup
       {[item |-> item, promptToUse |-> PromptToUse(item, useSuggestion),
         aspectRatio |-> item.aspectRatio]}
  /\ UNCHANGED <<loadingState, errorMsg, currentBatch, history, now, batchVars, storage, mount>>

\* handleRetry past its guard: the id is flagged and the render call is issued
\* in the same segment, with the prompt chosen and the aspect ratio of the item.
StartRetry(item, useSuggestion) ==
  /\ item.id \notin retryingIds
  /\ retryingIds' = retryingIds \cup {item.id}
  /\ retries' = retries \cup
       {[item |-> item, promptToUse |-> PromptToUse(item, useSuggestion),
         aspectRatio |-> item.aspectRatio]}
  /\ UNCHANGED <<loadingState, errorMsg, currentBatch, history, now, batchVars, storage, mount>>

handleRetry(item, useSuggestion) ==
  \/ /\ item.id \in retryingIds
     /\ UNCHANGED vars
  \/ /\ commands < MaxCommands
     /\ commands' = commands + 1
     /\ StartRetry(item, useSuggestion)

\* The try block of handleRetry after the render call has returned an image.
RetrySucceeded(t, successItem) ==
  /\ currentBatch' = ReplaceById(currentBatch, t.item.id, successItem)
  /\ Store(successItem)
  /\ UNCHANGED errorMsg

\* catch (e) that also takes the failed cards out of the displayed list
RetryFailedRemovesCards ==
  /\ errorMsg' = RetryErrorMsg
  /\ currentBatch' = SelectSeq(currentBatch, LAMBDA x : x.status = "success")
  /\ UNCHANGED <<history, storage>>

\* catch (e) of handleRetry
RetryFailed ==
  /\ errorMsg' = RetryErrorMsg
  /\ UNCHANGED <<currentBatch, history, storage>>

\* finally that clears the flag and leaves the render call to be answered again
RetryFinallyKeepsCall(t) ==
  /\ retryingIds' = retryingIds \ {t.item.id}
  /\ retries' = retries

\* The call ended without the finally block: the flag is never cleared
RetryFinallyKeepsFlag(t) ==
  /\ retryingIds' = retryingIds
  /\ retries' = retries \ {t}

\* finally of handleRetry, which ends the call
RetryFinally(t) ==
  /\ retryingIds' = retryingIds \ {t.item.id}
  /\ retries' = retries \ {t}

RetryImageReturns(t, r) ==
  /\ t \in retries
  /\ LET res == generateImage(r)
     IN \/ /\ res.ok
           /\ RetrySucceeded(t, SuccessItem(t.item, res.imageUrl, t.promptToUse, now))
        \/ /\ ~res.ok
           /\ RetryFailed
  /\ RetryFinally(t)
  /\ UNCHANGED <<loadingState, now, batchVars, commands, mount>>

handleDelete(id) ==
  /\ commands < MaxCommands
  /\ commands' = commands + 1
  /\ history' = RemoveById(history, id)
  /\ Persist
  /\ currentBatch' = RemoveById(currentBatch, id)
  /\ UNCHANGED <<loadingState, errorMsg, retryingIds, now, batchVars, retries, mount>>

\* Collation rank of the characters an id is made of (String.prototype.localeCompare).
CharRank(c) ==
  CASE c = "_" -> 0 [] c = "0" -> 1 [] c = "1" -> 2 [] c = "2" -> 3 [] c = "3" -> 4
    [] c = "4" -> 5 [] c = "5" -> 6 [] c = "6" -> 7 [] c = "7" -> 8 [] c = "8" -> 9
    [] c = "9" -> 10

\* a.localeCompare(b) < 0
RECURSIVE LocaleLess(_, _)
LocaleLess(a, b) ==
  IF b = <<>> THEN FALSE
  ELSE IF a = <<>> THEN TRUE
  ELSE IF Head(a) = Head(b) THEN LocaleLess(Tail(a), Tail(b))
  ELSE CharRank(Head(a)) < CharRank(Head(b))

\* x put into the sorted list after every element that is not greater
RECURSIVE InsertById(_, _)
InsertById(sorted, x) ==
  IF sorted = <<>> THEN <<x>>
  ELSE IF LocaleLess(x.id, Head(sorted).id) THEN <<x>> \o sorted
  ELSE <<Head(sorted)>> \o InsertById(Tail(sorted), x)

\* Array.prototype.sort((a, b) => a.id.localeCompare(b.id)), which is stable
RECURSIVE SortById(_)
SortById(list) ==
  IF list = <<>> THEN <<>>
  ELSE InsertById(SortById(SubSeq(list, 1, Len(list) - 1)), list[Len(list)])

\* Array.prototype.reverse
Reverse(list) == [k \in 1..Len(list) |-> list[Len(list) + 1 - k]]

\* Array.prototype.filter(h => h.batchId === batchId)
RECURSIVE FilterByBatch(_, _)
FilterByBatch(list, bid) ==
  IF list = <<>> THEN <<>>
  ELSE IF Head(list).batchId = bid THEN <<Head(list)>> \o FilterByBatch(Tail(list), bid)
  ELSE FilterByBatch(Tail(list), bid)

handleSelectHistoryItem(item) ==
  /\ commands < MaxCommands
  /\ commands' = commands + 1
  /\ LET siblings == Reverse(FilterByBatch(history, item.batchId))
     IN currentBatch' =
          IF item.batchId # <<>> /\ Len(siblings) > 1 THEN SortById(siblings) ELSE <<item>>
  /\ UNCHANGED <<loadingState, errorMsg, history, retryingIds, now, batchVars, retries,
                 storage, mount>>

\* The delete buttons: on every card of the displayed list, and on the history
\* grid, which is drawn when nothing is loading and the displayed list is empty.
Deletable ==
  Ids(currentBatch) \cup (IF ~isLoading /\ currentBatch = <<>> THEN Ids(history) ELSE {})

\* The retry buttons are drawn on the failed cards of the displayed list.
Retryable == {currentBatch[k] : k \in {j \in 1..Len(currentBatch) : currentBatch[j].status = "failed"}}

Next ==
  \/ \E T \in InputTexts, ar \in AspectRatios : handleGenerate(T, ar)
  \/ \E r \in AnalyzerResponses : AnalyzeScriptReturns(r)
  \/ DelayElapsed
  \/ \E r \in RenderResponses : GenerateImageReturns(r)
  \/ \E r \in RepairResponsesNow : GetPromptFixReturns(r)
  \/ \E item \in Retryable, u \in BOOLEAN : handleRetry(item, u)
  \/ \E t \in retries, r \in RenderResponses : RetryImageReturns(t, r)
  \/ \E id \in Deletable : handleDelete(id)
  \/ \E k \in 1..Len(history) : handleSelectHistoryItem(history[k])

Spec == Init /\ [][Next]_vars

\* The continuation of the suspended handleGenerate: at most one await of the
\* batch is pending at a time.
BatchStep ==
  \/ \E r \in AnalyzerResponses : AnalyzeScriptReturns(r)
  \/ DelayElapsed
  \/ \E r \in RenderResponses : GenerateImageReturns(r)
  \/ \E r \in RepairResponsesNow : GetPromptFixReturns(r)

\* Every provider call and every pacing delay of the batch eventually completes;
\* the runs are those of a first start.
FairSpec == InitEmpty /\ [][Next]_vars /\ WF_vars(BatchStep)

\* The steps of a user who starts batches and retries failed cards as often as
\* the cards allow, and issues no other command.
RetryNext ==
  \/ \E T \in InputTexts, ar \in AspectRatios : handleGenerate(T, ar)
  \/ BatchStep
  \/ \E item \in Retryable, u \in BOOLEAN : StartRetry(item, u) /\ UNCHANGED commands
  \/ \E t \in retries, r \in RenderResponses : RetryImageReturns(t, r)

RetrySpec == InitEmpty /\ [][RetryNext]_vars

\* The steps of a user who starts batches, retries failed cards as often as
\* the cards allow and deletes records, and never selects a record of the
\* history: an id leaves the displayed list of a batch by a delete only.
DeleteNext ==
  \/ \E T \in InputTexts, ar \in AspectRatios : handleGenerate(T, ar)
  \/ BatchStep
  \/ \E item \in Retryable, u \in BOOLEAN : StartRetry(item, u) /\ UNCHANGED commands
  \/ \E t \in retries, r \in RenderResponses : RetryImageReturns(t, r)
  \/ \E id \in Deletable : handleDelete(id)

DeleteSpec == InitEmpty /\ [][DeleteNext]_vars

\* The values of the aspect ratio selector.
ASPECT_RATIOS == {"16:9", "9:16"}

\* The steps of a user who moves the aspect ratio selector away from the ratio
\* of the batch before (16:9 at the start) before every batch, and does not
\* delete or select.
RatioNext ==
  \/ \E T \in InputTexts, ar \in ASPECT_RATIOS \ {bAspect} : handleGenerate(T, ar)
  \/ BatchStep
  \/ \E item \in Retryable, u \in BOOLEAN : handleRetry(item, u)
  \/ \E t \in retries, r \in RenderResponses : RetryImageReturns(t, r)

RatioSpec == InitEmpty /\ [][RatioNext]_vars

\* The scene indexes of the stored batch of the select runs: one-digit and
\* two-digit ones.
StoredIndexes == {0, 1, 2, 9, 10, 11}

\* The record the loop stored for scene k of the batch of an earlier session.
StoredScene(k) == [StoredRecord EXCEPT !.id = MakeId(StoredRecord.batchId, k)]

\* The stored list of a batch of which the scenes S succeeded: the loop puts
\* every new record in front, so the scenes are stored last scene first.
RECURSIVE StoredBatch(_)
StoredBatch(S) ==
  IF S = {} THEN <<>>
  ELSE LET k == CHOOSE m \in S : \A n \in S : n <= m
       IN <<StoredScene(k)>> \o StoredBatch(S \ {k})

\* A start with the stored list of a batch of up to twelve scenes.
InitStored == \E S \in SUBSET StoredIndexes : Mounted(StoredBatch(S))

\* The steps of a user who looks through the stored list: select and delete.
SelectNext ==
  \/ \E k \in 1..Len(history) : handleSelectHistoryItem(history[k])
  \/ \E id \in Deletable : handleDelete(id)

SelectSpec == InitStored /\ [][SelectNext]_vars

\* ------------------------------------------------------------------ startup
\* A record an earlier session stored by a retry with the suggested prompt.
RetriedRecord ==
  [StoredRecord EXCEPT !.id = MakeId(StoredRecord.batchId, 1),
                       !.refinedPrompt = <<"c">>, !.suggestedPrompt = <<<<"c">>>>]

\* What getItem can return at startup: null, the empty text, a text that is not
\* JSON, the JSON texts null and {...}, and the array an earlier session wrote.
StoredValues ==
  {[kind |-> k, json |-> <<>>] : k \in {"absent", "empty", "unparsable", "null", "object"}}
    \cup {Stringify(h) : h \in {<<>>, <<StoredRecord>>, <<RetriedRecord, StoredRecord>>}}

\* The first render is committed and no effect has run.
InitStartup ==
  /\ FirstRender
  /\ history = <<>>
  /\ storage \in StoredValues
  /\ mount = "first"

\* The two effects of the first commit.  The load effect calls setHistory with
\* whatever JSON.parse returns, and with nothing when there is no text or the
\* parse throws; the persist effect writes the history of the first render.  A
\* parsed value that is no array is not kept in `history`: mount = "junk" says
\* that the history to be rendered is that value.
MountEffects ==
  /\ mount = "first"
  /\ IF storage.kind \in {"absent", "empty", "unparsable"}
     THEN history' = history /\ mount' = "ready"
     ELSE IF storage.kind = "array"
          THEN history' = Parse(storage) /\ mount' = "loaded"
          ELSE history' = history /\ mount' = "junk"
  /\ storage' = Stringify(history)
  /\ UNCHANGED <<loadingState, errorMsg, currentBatch, retryingIds, now, batchVars,
                 retries, commands>>

\* The render with the loaded history and the persist effect after it.  The
\* render reads history.length and calls history.slice, which throws for a
\* value that is no array; no effect runs then.
RenderLoaded ==
  /\ UNCHANGED <<loadingState, errorMsg, currentBatch, history, retryingIds, now,
                 batchVars, retries, commands>>
  /\ \/ /\ mount = "loaded"
        /\ mount' = "ready"
        /\ Persist
     \/ /\ mount = "junk"
        /\ mount' = "crashed"
        /\ UNCHANGED storage

\* The handlers work once the startup has settled.
Ready == mount = "ready"

\* The startup, and after it a user who starts batches, selects and deletes.
StartupNext ==
  \/ MountEffects
  \/ RenderLoaded
  \/ \E T \in InputTexts, ar \in AspectRatios : Ready /\ handleGenerate(T, ar)
  \/ Ready /\ BatchStep
  \/ \E id \in Deletable : Ready /\ handleDelete(id)
  \/ \E k \in 1..Len(history) : Ready /\ handleSelectHistoryItem(history[k])

StartupSpec == InitStartup /\ [][StartupNext]_vars

\* The return of an outstanding render call of handleRetry.
RetryStep == \E t \in retries, r \in RenderResponses : RetryImageReturns(t, r)

\* Every render call of a retry eventually returns; the runs are those of a
\* first start.
RetryFairSpec == InitEmpty /\ [][Next]_vars /\ WF_vars(RetryStep)

\* ------------------------------------------------------------------ properties
Status == loadingState.status

Last(list) == list[Len(list)]

Successes(list) == SelectSeq(list, LAMBDA x : x.status = "success")

HasFailed(list) == \E k \in 1..Len(list) : list[k].status = "failed"

\* The suggestion of a record is absent or differs from its prompt.
SuggestionDiffers(x) ==
  x.suggestedPrompt = <<>> \/ x.suggestedPrompt[1] # x.refinedPrompt

\* The failed record of the running batch whose retry was stored.
RetriedAndStored(x) ==
  /\ x.status = "failed"
  /\ \E k \in 1..Len(history) : history[k].id = x.id

C3_EmittedInSceneOrder ==
  /\ [](\A k \in 1..Len(tempBatch) :
          /\ tempBatch[k].id = MakeId(batchId, k - 1)
          /\ tempBatch[k].refinedPrompt = scenes[k].english_prompt
          /\ tempBatch[k].sceneSummary = scenes[k].korean_summary)
  /\ [][tempBatch' # tempBatch /\ tempBatch' # <<>> =>
          /\ SubSeq(tempBatch', 1, Len(tempBatch)) = tempBatch
          /\ Len(tempBatch') = Len(tempBatch) + 1
          /\ currentBatch' = tempBatch']_vars

C3_Witness ==
  /\ Len(tempBatch) > 1
  /\ currentBatch = tempBatch
  /\ tempBatch[1].status = "failed"
  /\ tempBatch[2].status = "success"

\* C4: a rejected render or repair never takes the batch to the error phase; the
\* failed result is appended and nothing is stored for it; and a batch of which
\* every scene was rendered, with no user command issued, ends in success with
\* the displayed list holding all results in scene order and the stored list
\* holding exactly its successful ones.
C4_RenderFailureIsolated ==
  /\ []((pc = "done" /\ Status = "success" /\ commands = 0) =>
          /\ currentBatch = tempBatch
          /\ Len(currentBatch) = Len(scenes)
          /\ FilterByBatch(history, batchId) = Reverse(Successes(tempBatch)))
  /\ [][(pc \in {"render", "repair"}) => loadingState'.status # "error"]_vars
  /\ [][pc = "repair" /\ pc' # "repair" =>
          /\ tempBatch' = Append(tempBatch, Last(tempBatch'))
          /\ Last(tempBatch').status = "failed"
          /\ currentBatch' = tempBatch'
          /\ history' = history]_vars

C4_Witness ==
  /\ pc = "done"
  /\ Status = "success"
  /\ commands = 0
  /\ Len(tempBatch) = 2
  /\ tempBatch[1].status = "failed"
  /\ tempBatch[2].status = "success"
  /\ Len(FilterByBatch(history, batchId)) = 1

\* C5: every stored record has status success.
C5_OnlySuccessStored ==
  \A k \in 1..Len(history) : history[k].status = "success"

C5_Witness ==
  /\ HasFailed(currentBatch)
  /\ \E k \in 1..Len(tempBatch) : RetriedAndStored(tempBatch[k])

\* C6 (as stated): a batch never completes with zero emitted results.
C6_AtLeastOneResult ==
  (pc = "done" /\ Status = "success") => Len(tempBatch) >= 1

AnalysisFailures == {"raise", "notext", "unparsable", "primitive"}

\* C7: when the analysis fails for the script T, the batch goes on generating
\* with the one fallback scene whose prompt is T and a total of 1; it stays in
\* the generating phase until its one result, whose prompt is T, is emitted, and
\* then it is in the success phase, whether the render succeeded or failed.
C7_AnalysisFailureAbsorbed ==
  /\ [][\A r \in AnalyzerResponses :
          (r.kind \in AnalysisFailures /\ AnalyzeScriptReturns(r)) =>
            /\ scenes' = <<FallbackScene(bInput)>>
            /\ scenes'[1].english_prompt = bInput
            /\ loadingState' = Generating(1, 1)
            /\ pc' = "render"]_vars
  /\ [](scenes = <<FallbackScene(bInput)>> =>
          /\ pc # "done" => (Status = "generating" /\ tempBatch = <<>>)
          /\ pc = "done" =>
               /\ Status = "success"
               /\ Len(tempBatch) = 1
               /\ tempBatch[1].refinedPrompt = bInput)

C7_Witness ==
  /\ scenes = <<FallbackScene(bInput)>>
  /\ pc = "done"
  /\ tempBatch[1].status = "failed"

\* C8: no failed result of the batch has a suggestion equal to its prompt, and
\* the failed result has no suggestion when the repair call rejects, answers
\* without text, with blank text or with the prompt itself.
C8_NoNoOpSuggestion ==
  /\ [](\A k \in 1..Len(tempBatch) :
          tempBatch[k].status = "failed" => SuggestionDiffers(tempBatch[k]))
  /\ [][\A r \in RepairResponsesNow :
          (/\ GetPromptFixReturns(r)
           /\ \/ r.kind \in {"raise", "notext"}
              \/ Trim(r.text) \in {<<>>, scenes[i + 1].english_prompt}) =>
            Last(tempBatch').suggestedPrompt = <<>>]_vars

C8_Witness ==
  /\ Len(tempBatch) > 1
  /\ tempBatch[1].status = "failed"
  /\ tempBatch[1].suggestedPrompt = <<>>
  /\ tempBatch[2].status = "failed"
  /\ tempBatch[2].suggestedPrompt # <<>>

\* C9 (as stated): every displayed or stored record that has a suggestion has a
\* suggestion different from its prompt.
C9_SuggestionDiffersEverywhere ==
  /\ \A k \in 1..Len(currentBatch) : SuggestionDiffers(currentBatch[k])
  /\ \A k \in 1..Len(history) : SuggestionDiffers(history[k])

\* C10: a record of the batch, of the displayed list or of the stored list has
\* a non-empty image exactly when its status is success.
ImageIffSuccess(x) == (x.imageUrl # <<>>) <=> (x.status = "success")

C10_ImageIffSuccess ==
  /\ \A k \in 1..Len(tempBatch) : ImageIffSuccess(tempBatch[k])
  /\ \A k \in 1..Len(currentBatch) : ImageIffSuccess(currentBatch[k])
  /\ \A k \in 1..Len(history) : ImageIffSuccess(history[k])

C10_Witness ==
  /\ Len(currentBatch) = 2
  /\ currentBatch[1].status = "failed"
  /\ currentBatch[2].status = "success"
  /\ RetriedAndStored(tempBatch[2])

\* The render calls of handleRetry that are outstanding for the id.
CallsFor(id) == {t \in retries : t.item.id = id}

\* C11: while a retry of an id is in flight, a further retry request for that id
\* changes no state and issues no call, so that at most one retry call per id is
\* outstanding; a request for an id that is not in flight is not held back by
\* the retries of other ids.
C11_RetryGuardPerId ==
  /\ \A item \in Retryable, u \in BOOLEAN :
       item.id \in retryingIds =>
         /\ ~ENABLED (handleRetry(item, u) /\ vars' # vars)
         /\ ~ENABLED (StartRetry(item, u) /\ UNCHANGED commands)
  /\ \A item \in Retryable, u \in BOOLEAN :
       item.id \notin retryingIds =>
         ENABLED (StartRetry(item, u) /\ UNCHANGED commands)
  /\ \A id \in retryingIds : Cardinality(CallsFor(id)) <= 1

C11_Witness ==
  /\ \E item \in Retryable : item.id \in retryingIds
  /\ \E item \in Retryable : item.id \notin retryingIds

\* C12: a retry request for an id that is not in flight issues one render call
\* in the step of the request, and the return of that call, with an image or
\* with a rejection, ends it: no call is issued in its place, and the position
\* of the batch, where the pacing delay and the repair call live, is untouched.
C12_OneRenderCallPerRetry ==
  /\ [][\A item \in Retryable, u \in BOOLEAN :
          (item.id \notin retryingIds /\ handleRetry(item, u)) =>
            /\ Cardinality(CallsFor(item.id)') = 1
            /\ Cardinality(retries') = Cardinality(retries) + 1
            /\ UNCHANGED batchVars]_vars
  /\ [][\A t \in retries, r \in RenderResponses :
          RetryImageReturns(t, r) =>
            /\ retries' = retries \ {t}
            /\ CallsFor(t.item.id)' = {}
            /\ UNCHANGED batchVars]_vars

C12_Witness ==
  /\ errorMsg = RetryErrorMsg
  /\ retries = {}
  /\ HasFailed(currentBatch)
  /\ pc = "delay"

\* C13: an id is flagged exactly while a render call of its retry is
\* outstanding; the return of the call clears the flag whether it brought an
\* image or a rejection; and, the render calls returning, the set of flagged
\* ids is empty again and again, so that every flagged id is eventually
\* unflagged.
C13_FlagWhileCallOutstanding ==
  /\ [](retryingIds = {t.item.id : t \in retries})
  /\ [][\A t \in retries, r \in RenderResponses :
          RetryImageReturns(t, r) => t.item.id \notin retryingIds']_vars
  /\ []<>(retryingIds = {})

C13_Witness ==
  /\ retryingIds = {}
  /\ commands > 0
  /\ errorMsg = RetryErrorMsg
  /\ \E item \in Retryable : ENABLED (StartRetry(item, FALSE) /\ UNCHANGED commands)

\* C14 (as stated): the stored list never holds two records with the same id.
C14_StoreKeyedById ==
  \A j, k \in 1..Len(history) : j # k => history[j].id # history[k].id

\* C15: a retry request sends the suggestion when it is asked to and the item
\* has one, and the prompt of the item otherwise, with the aspect ratio of the
\* item; when the call returns an image, the record stored and put in the place
\* of the item in the displayed list has status success, that image, the prompt
\* that was sent, and the id, batch id, input, summary and aspect ratio of the
\* item.
C15_SuccessfulRetryRecord ==
  /\ [][\A item \in Retryable, u \in BOOLEAN :
          (item.id \notin retryingIds /\ handleRetry(item, u)) =>
            \E t \in retries' \ retries :
              /\ t.item = item
              /\ t.promptToUse = IF u /\ item.suggestedPrompt # <<>>
                                 THEN item.suggestedPrompt[1]
                                 ELSE item.refinedPrompt
              /\ t.aspectRatio = item.aspectRatio]_vars
  /\ [][\A t \in retries, r \in RenderResponses :
          (generateImage(r).ok /\ RetryImageReturns(t, r)) =>
            LET x == history'[1]
            IN /\ x.status = "success"
               /\ x.imageUrl = generateImage(r).imageUrl
               /\ x.imageUrl # <<>>
               /\ x.refinedPrompt = t.promptToUse
               /\ x.id = t.item.id
               /\ x.batchId = t.item.batchId
               /\ x.originalInput = t.item.originalInput
               /\ x.sceneSummary = t.item.sceneSummary
               /\ x.aspectRatio = t.item.aspectRatio
               /\ \A k \in 1..Len(currentBatch) :
                    currentBatch[k].id = t.item.id => currentBatch'[k] = x]_vars

C15_Witness ==
  /\ history # <<>>
  /\ history[1].suggestedPrompt # <<>>
  /\ history[1].refinedPrompt = history[1].suggestedPrompt[1]
  /\ history[1].aspectRatio = "9:16"
  /\ \E k \in 1..Len(currentBatch) : currentBatch[k] = history[1]

\* C16: a retry whose render call is rejected changes no record: neither the
\* request nor the return of the call touches the displayed list or the stored
\* list; the return sets the error notice and clears the flag of the id, and
\* the phase and the batch are left alone.
C16_FailedRetryChangesNoRecord ==
  /\ [][\A t \in retries, r \in RenderResponses :
          (~generateImage(r).ok /\ RetryImageReturns(t, r)) =>
            /\ currentBatch' = currentBatch
            /\ history' = history
            /\ errorMsg' = RetryErrorMsg
            /\ retryingIds' = retryingIds \ {t.item.id}
            /\ UNCHANGED <<loadingState, batchVars>>]_vars
  /\ [][\A item \in Retryable, u \in BOOLEAN :
          handleRetry(item, u) => UNCHANGED <<currentBatch, history, errorMsg>>]_vars

C16_Witness ==
  /\ errorMsg = RetryErrorMsg
  /\ retryingIds = {}
  /\ \E k \in 1..Len(currentBatch) :
       /\ currentBatch[k].status = "failed"
       /\ currentBatch[k].suggestedPrompt # <<>>
  /\ history # <<>>

\* C17: for a failed card without a suggestion, a retry request that asks for
\* the suggestion and one that does not are the same step: each is a step of
\* the other, the call they issue carries the prompt of the card, and the
\* record a successful return stores has that prompt.
C17_NoSuggestionSameRetry ==
  /\ [][\A item \in Retryable :
          item.suggestedPrompt = <<>> =>
            /\ handleRetry(item, TRUE) <=> handleRetry(item, FALSE)
            /\ \A u \in BOOLEAN :
                 (item.id \notin retryingIds /\ handleRetry(item, u)) =>
                   \A t \in CallsFor(item.id)' : t.promptToUse = item.refinedPrompt]_vars
  /\ [][\A t \in retries, r \in RenderResponses :
          (/\ t.item.suggestedPrompt = <<>>
           /\ generateImage(r).ok
           /\ RetryImageReturns(t, r)) =>
            history'[1].refinedPrompt = t.item.refinedPrompt]_vars

C17_Witness ==
  /\ history # <<>>
  /\ history[1].suggestedPrompt = <<>>
  /\ \E k \in 1..Len(tempBatch) :
       /\ tempBatch[k].id = history[1].id
       /\ tempBatch[k].status = "failed"
  /\ history[1].refinedPrompt = <<"b", " ">>

\* The list without the records that have the id, the others in their order.
Without(list, id) == SelectSeq(list, LAMBDA x : x.id # id)

\* The ids of the records the program holds anywhere.
KnownIds == Ids(history) \cup Ids(currentBatch) \cup Ids(tempBatch) \cup {StoredRecord.id}

\* C18: delete(id) leaves in the stored list and in the displayed list exactly
\* the records with another id, in their order, and touches nothing else;
\* deleting once more, or deleting an id a list does not hold, leaves the list
\* as it is.
C18_DeleteRemovesOnlyThatId ==
  /\ [][\A id \in Deletable :
          handleDelete(id) =>
            /\ history' = Without(history, id)
            /\ currentBatch' = Without(currentBatch, id)
            /\ id \notin Ids(history') \cup Ids(currentBatch')
            /\ RemoveById(history', id) = history'
            /\ RemoveById(currentBatch', id) = currentBatch'
            /\ UNCHANGED <<loadingState, errorMsg, retryingIds, retries, batchVars>>]_vars
  /\ [](\A id \in KnownIds :
          /\ id \notin Ids(history) => RemoveById(history, id) = history
          /\ id \notin Ids(currentBatch) => RemoveById(currentBatch, id) = currentBatch)

C18_Witness ==
  /\ Len(tempBatch) = 2
  /\ Len(currentBatch) = 1
  /\ currentBatch[1] = tempBatch[2]
  /\ tempBatch[1].status = "success"
  /\ tempBatch[1].id \notin Ids(history)
  /\ Len(history) = 2

\* A script of blanks only, which is empty after trimming.
Blank(T) == \A k \in 1..Len(T) : T[k] = " "

\* C19: startGeneration with a script that is empty after trimming has no step
\* that changes anything: phase, error message, displayed list, stored list and
\* the place of the batch, where a provider call would be pending, stay.
C19_BlankScriptIgnored ==
  \A T \in InputTexts, ar \in AspectRatios :
    Blank(T) => ~ENABLED (handleGenerate(T, ar) /\ vars' # vars)

C19_Witness ==
  /\ currentBatch # <<>>
  /\ history # <<>>
  /\ \E T \in InputTexts : Blank(T) /\ T # <<>>
  /\ \E T \in InputTexts, ar \in AspectRatios :
       ~Blank(T) /\ ENABLED (handleGenerate(T, ar) /\ vars' # vars)

\* C20 (as stated): a record of the displayed list that is also stored is the
\* stored record: a result whose retry succeeded during the batch stays the
\* successful record in the displayed list while the batch emits its later
\* scenes.
C20_RetriedRecordStays ==
  \A k \in 1..Len(currentBatch), j \in 1..Len(history) :
    currentBatch[k].id = history[j].id => currentBatch[k] = history[j]

\* The value of a decimal digit, and of a text of digits.
DigitValue(c) == CHOOSE d \in 0..9 : DigitChar(d) = c

RECURSIVE StringToNum(_)
StringToNum(t) ==
  IF t = <<>> THEN 0
  ELSE 10 * StringToNum(SubSeq(t, 1, Len(t) - 1)) + DigitValue(t[Len(t)])

\* The text behind the last "_" of an id.
RECURSIVE Suffix(_)
Suffix(id) ==
  IF id = <<>> \/ id[Len(id)] = "_" THEN <<>>
  ELSE Suffix(SubSeq(id, 1, Len(id) - 1)) \o <<id[Len(id)]>>

\* The scene index an id encodes.
SceneIndexOf(id) == StringToNum(Suffix(id))

\* C21 (as stated): the displayed list that select builds from the stored list
\* holds the records of the batch in ascending order of the scene index of
\* their ids.
C21_SelectOrdersByScene ==
  \A j, k \in 1..Len(currentBatch) :
    (j < k /\ currentBatch[j].batchId = currentBatch[k].batchId) =>
      SceneIndexOf(currentBatch[j].id) < SceneIndexOf(currentBatch[k].id)

\* C22: what the program wrote is read back as it was: the load effect puts in
\* memory the records of the stored array, in their order; the render that
\* follows writes them back and keeps them; and every history the program
\* holds is the one its written text is parsed to.
C22_PersistenceRoundTrip ==
  /\ [][(mount = "first" /\ storage.kind = "array") =>
          /\ mount' = "loaded"
          /\ Len(history') = Len(storage.json)
          /\ Stringify(history') = storage]_vars
  /\ [][(mount = "loaded") =>
          /\ mount' = "ready"
          /\ history' = history
          /\ storage' = Stringify(history)]_vars
  /\ [](mount \in {"loaded", "ready"} => Parse(Stringify(history)) = history)

C22_Witness ==
  /\ mount = "ready"
  /\ now = 0
  /\ commands = 0
  /\ history = <<RetriedRecord, StoredRecord>>
  /\ storage = Stringify(<<RetriedRecord, StoredRecord>>)

\* C23 (as stated): whatever the stored value, the startup ends with a list as
\* the history and with the component rendered: no value that is not a list
\* becomes the history, and no render throws.
C23_BadStoredValueIsNoHistory ==
  mount \notin {"junk", "crashed"}

\* A step of handleGenerate or of one of its continuations.
BatchMoved == pc' # pc \/ i' # i \/ now' # now

\* C24: the id of a new batch is the batch id of no stored record, and a step
\* of a batch leaves the stored list as it is or puts one record in front of
\* it, which carries the id of the batch; so the records stored before the
\* batch stay, unchanged and in their order.
C24_PriorResultsUntouched ==
  /\ [][now' # now =>
          /\ history' = history
          /\ batchId' \notin {history[k].batchId : k \in 1..Len(history)}]_vars
  /\ [][BatchMoved =>
          \/ history' = history
          \/ /\ history' = <<history'[1]>> \o history
             /\ history'[1].batchId = batchId
             /\ history'[1].id = MakeId(batchId, i)]_vars

C24_Witness ==
  /\ pc = "done"
  /\ commands = 0
  /\ Len(history) = 3
  /\ history[3] = StoredRecord
  /\ history[1].batchId = batchId
  /\ history[2].batchId = batchId

BatchCall == IF pc \in {"analyze", "render", "repair"} THEN <<pc, i>> ELSE <<>>

\* C26: the batch has one place, so one provider call at most; while a call or
\* the delay for scene i + 1 is pending, every scene before it has its result
\* (the first i scenes, no other); a render is issued after the analysis or
\* after a delay only; the render of a scene is followed by its result or by
\* its repair call, and the repair call by the failed result of the scene.
C26_OneProviderCallAtATime ==
  /\ [](pc = "analyze" => scenes = <<>> /\ tempBatch = <<>>)
  /\ [](pc \in {"delay", "render", "repair"} => i < Len(scenes) /\ Len(tempBatch) = i)
  /\ [][BatchCall' # BatchCall /\ BatchCall' # <<>> =>
          \/ BatchCall' = <<"analyze", 0>> /\ BatchCall = <<>>
          \/ BatchCall' = <<"render", 0>> /\ BatchCall = <<"analyze", 0>>
          \/ BatchCall' = <<"render", i>> /\ pc = "delay"
          \/ BatchCall' = <<"repair", i>> /\ BatchCall = <<"render", i>>]_vars
  /\ [][pc = "render" /\ pc' # "render" =>
          \/ pc' = "repair" /\ tempBatch' = tempBatch
          \/ /\ Len(tempBatch') = Len(tempBatch) + 1
             /\ tempBatch' = Append(tempBatch, Last(tempBatch'))
             /\ Last(tempBatch').id = MakeId(batchId, i)
             /\ Last(tempBatch').status = "success"]_vars
  /\ [][pc = "repair" /\ pc' # "repair" =>
          /\ Len(tempBatch') = Len(tempBatch) + 1
          /\ tempBatch' = Append(tempBatch, Last(tempBatch'))
          /\ Last(tempBatch').id = MakeId(batchId, i)
          /\ Last(tempBatch').status = "failed"]_vars

C26_Witness ==
  /\ pc = "render"
  /\ i = 1
  /\ tempBatch[1].status = "failed"
  /\ retries # {}

\* C27: the analysis is followed by the first render with no delay; a render
\* of a later scene is issued by the end of a delay, one delay each; and the
\* result of a scene, successful or failed, is followed by a delay or by the
\* end of the run, never by a render.
C27_Pacing ==
  /\ [][pc = "analyze" /\ pc' # "analyze" => pc' \in {"render", "done"} /\ i' = 0]_vars
  /\ [][pc' = "render" /\ pc # "render" =>
          \/ pc = "analyze" /\ i' = 0
          \/ pc = "delay" /\ i' = i /\ i > 0]_vars
  /\ [][pc' = "delay" /\ pc # "delay" =>
          pc \in {"render", "repair"} /\ i' = i + 1 /\ i' < Len(scenes)]_vars
  /\ [][pc = "delay" /\ pc' # "delay" => pc' \in {"render", "done"} /\ i' = i]_vars
  /\ [][i' # i /\ now' = now => pc' \in {"delay", "done"}]_vars

C27_Witness ==
  /\ pc = "render"
  /\ i = 1
  /\ tempBatch[1].status = "success"
  /\ commands = 0

\* C28: the storage item is the serialisation of the whole stored list: once
\* the startup has written, the two agree in every state; every step that
\* changes the stored list (a batch success, a retry success, a delete) writes
\* the new list; and what is written has the fields of the stored records only,
\* so the displayed list and the set of ids being retried are not in it.
C28_StorageFollowsHistory ==
  /\ [](Ready => storage = Stringify(history))
  /\ [][history' # history => storage' = Stringify(history')]_vars
  /\ [][history' = history /\ Ready => storage' = storage]_vars

C28_Witness ==
  /\ Ready
  /\ Len(history) = 1
  /\ history[1].batchId = batchId
  /\ storage = Stringify(history)
  /\ Len(currentBatch) = 2
  /\ currentBatch[1].status = "failed"
  /\ retryingIds # {}

\* The elements of a list.
Range(list) == {list[k] : k \in 1..Len(list)}

\* The place in tempBatch of the record with the id, 0 when there is none.
SceneOrderOf(id) ==
  LET at == {k \in 1..Len(tempBatch) : tempBatch[k].id = id}
  IN IF at = {} THEN 0 ELSE CHOOSE k \in at : TRUE

\* C29: the successes of the running batch enter the stored list in scene
\* order: a success of the loop is put in front of the stored list in the step
\* that emits it, so of two loop successes of the batch in the stored list the
\* one of the later scene stands before the one of the earlier scene.
C29_SuccessesStoredInSceneOrder ==
  /\ [][pc = "render" /\ Len(tempBatch') = Len(tempBatch) + 1 =>
          /\ history' = <<Last(tempBatch')>> \o history
          /\ \A k \in 1..Len(history) :
               history[k] \in Range(tempBatch) => history[k].id # Last(tempBatch').id]_vars
  /\ [](\A p, q \in 1..Len(history) :
          (/\ p < q
           /\ history[p] \in Range(tempBatch)
           /\ history[q] \in Range(tempBatch))
          => SceneOrderOf(history[p].id) > SceneOrderOf(history[q].id))

C29_Witness ==
  /\ Len(tempBatch) = 2
  /\ Len(history) = 3
  /\ history[1] = tempBatch[2]
  /\ history[2] = tempBatch[1]
  /\ history[3] = StoredRecord

\* C30: a deleted record stays deleted.  In a run of one batch with no select
\* step, the ids of the displayed list grow by the result the batch emits in
\* the step only, and a record is put into the stored list only while its card
\* is displayed; so no id that a delete has removed comes back, neither when
\* the batch emits a later scene nor when a retry that was in flight at the
\* delete succeeds.
C30_DeletedStaysDeleted ==
  /\ [][now' = now =>
          Ids(currentBatch') \subseteq Ids(currentBatch) \cup
            (IF i' # i THEN {MakeId(batchId, i)} ELSE {})]_vars
  /\ [][Ids(history') \subseteq Ids(history) \cup Ids(currentBatch')]_vars

\* C31: the start of a batch leaves the displayed list as it is, and while the
\* script is analyzed the list changes by a command of the user or the return
\* of a retry only; the step that ends the analysis empties it, with no result
\* of the batch emitted yet; after that a step of the batch either leaves the
\* list alone or sets it to the results of the batch so far, all of them with
\* the batchId of the batch.
C31_ViewKeptWhileAnalyzing ==
  /\ [][now' # now =>
          currentBatch' = currentBatch /\ Status' = "analyzing"]_vars
  /\ [][(Status = "analyzing" /\ Status' = "analyzing" /\ currentBatch' # currentBatch) =>
          commands' # commands \/ retries' # retries]_vars
  /\ [][(Status = "analyzing" /\ Status' # "analyzing") =>
          currentBatch' = <<>> /\ tempBatch' = <<>>]_vars
  /\ [][(Status # "analyzing" /\ BatchMoved /\ now' = now) =>
          \/ currentBatch' = currentBatch
          \/ /\ i' = i + 1
             /\ currentBatch' = tempBatch'
             /\ \A k \in 1..Len(currentBatch') : currentBatch'[k].batchId = batchId]_vars

C31_Witness ==
  /\ Status = "analyzing"
  /\ currentBatch = <<StoredRecord>>
  /\ StoredRecord.batchId # batchId
  /\ commands = 1

====
